---- MODULE Spec2Model ----
(***************************************************************************)
(* walrus-sim: batch orchestration of the walrus storage client.           *)
(*   simulate path: cli.simulate  -> processor.process_images              *)
(*   upload path:   cli.upload    -> processor.upload_images               *)
(* The filesystem below the image directory is the only shared state: the  *)
(* image files (dir) and the per-image ".json" state markers (markers).    *)
(***************************************************************************)
EXTENDS Integers, Sequences, FiniteSets, TLC

\* ---------------------------------------------------------------- bounds
MaxImages  == 2     \* image files in the directory
MaxWorkers == 1     \* largest explicit --workers value (0 stands for None)
MaxCost    == 2     \* largest storageCost the client reports, in FROST
MaxWal     == 3     \* largest WAL balance of the wallet, in FROST

\* multiprocessing.cpu_count() of the machine
CpuCount == 2

BlobIds == {"A", "B"}

\* ------------------------------------------------------------ file names
Bases == 1..MaxImages

ImageSuffixes == {".webp", ".png", ".jpg", ".jpeg", ".gif"}

\* str.lower() on the suffixes the modelled directories use
Lower(s) == IF s = ".JPG" THEN ".jpg" ELSE s

Path(b, s) == [base |-> b, suffix |-> s]

\* the image files a directory may hold, and a file that is no image
AllImages == {Path(b, s) : b \in Bases, s \in {".png", ".JPG"}}

NotesFile == Path(1, ".txt")

\* base names are labels: a directory uses base b + 1 only if it uses base b
UsesBasesInOrder(imgs) ==
    \A p \in imgs : p.base = 1 \/ \E q \in imgs : q.base = p.base - 1

Directories ==
    {imgs \cup {NotesFile} :
        imgs \in {d \in SUBSET AllImages : Cardinality(d) <= MaxImages /\ UsesBasesInOrder(d)}}

\* Path.with_suffix: the base name is kept, the suffix replaced
WithSuffix(p, s) == [base |-> p.base, suffix |-> s]

SuffixRank(s) == CASE s = ".png" -> 1 [] s = ".JPG" -> 2 [] OTHER -> 3

PathRank(p) == p.base * 4 + SuffixRank(p.suffix)

\* the order in which rglob lists a set of paths (fixed per directory)
RECURSIVE Enumerate(_)
Enumerate(S) ==
    IF S = {} THEN << >>
    ELSE LET p == CHOOSE x \in S : \A y \in S : PathRank(x) <= PathRank(y)
         IN  <<p>> \o Enumerate(S \ {p})

\* image_paths = [p for p in path.rglob("*") if p.suffix.lower() in {...}]
ImagePaths(d) == Enumerate({p \in d : Lower(p.suffix) \in ImageSuffixes})

\* json_paths = {p.with_suffix(".json") for p in image_paths}
JsonPaths(ips) == {WithSuffix(ips[i], ".json") : i \in DOMAIN ips}

\* ----------------------------------------------------------------- state
VARIABLES
    command,      \* the command given at the shell: "simulate" or "upload"
    dir,          \* the image directory: a set of paths
    markers,      \* the ".json" state markers that exist on disk
    image_paths,  \* process_images, upload_images: image_paths
    opts,         \* options of the simulate command (cli.simulate)
    args,         \* arguments of the running process_images call
    pc,           \* position of the main process of the simulate command
    pass,         \* 1: the call in the try block, 2: the call in the except block
    interrupted,  \* cli.simulate's local of that name
    tasks,        \* process_images: tasks
    st,           \* per task: "pending", "running", "writing", "done"
    ret,          \* per task: what simulate_image returns
    nxt,          \* index of the next value executor.map yields
    results,      \* process_images: results
    errors,       \* process_images: errors
    totals,       \* process_images: totals
    report,       \* what generate_summary_files was handed
    run,          \* "first" or "second" command on this directory
    prev,         \* history: summary of the first command, once a second runs
    startMarkers, \* history: markers at the start of the running call
    sigMarkers,   \* history: markers when the interrupt signal arrived
    calls,        \* history: paths the walrus client was invoked for, this call
    written,      \* history: marker paths written during this call
    wallet,       \* upload: the token groups "sui client balance" listed
    upc,          \* upload: position of the upload command
    sui_balance,  \* upload_images: sui_balance
    wal_balance,  \* upload_images: wal_balance
    wal_available,\* upload_images: wal_available
    k,            \* upload_images: index of the image the loop is at
    upResults,    \* upload_images: results
    upErrors,     \* upload_images: errors
    upTotals,     \* upload_images: totals
    upReport,     \* what generate_summary_files was handed by cli.upload
    stored,       \* the ".stored.json" records that exist on disk
    trail,        \* history: per image of this upload, what the loop did with it
    upRun         \* "first" or "second" upload command on this directory

fsVars   == <<dir, markers>>
cmdVars  == <<opts, args, pass, interrupted>>
poolVars == <<tasks, st, ret, nxt>>
outVars  == <<results, errors, totals, report>>
histVars == <<run, prev, startMarkers, sigMarkers, calls, written>>

upVars   == <<wallet, upc, sui_balance, wal_balance, wal_available, k, upResults,
              upErrors, upTotals, upReport, stored, trail, upRun>>

vars == <<command, image_paths, fsVars, cmdVars, pc, poolVars, outVars, histVars, upVars>>

NoTotals == [totalBlobIds |-> 0, uniqueBlobIds |-> 0, duplicateBlobIds |-> 0,
             hasDuplicates |-> FALSE]

NoReport == [made |-> FALSE]

NoPrev == [ran |-> FALSE]

Options == [resume : BOOLEAN, fresh : BOOLEAN, verify : BOOLEAN,
            clean : BOOLEAN, workers : 0..MaxWorkers]

NoOptions == [resume |-> FALSE, fresh |-> FALSE, verify |-> FALSE,
              clean |-> FALSE, workers |-> 0]

\* max_workers=workers or cpu_count()   (workers = 0 stands for None)
PoolSize(workers) == IF workers = 0 THEN CpuCount ELSE workers

InCall == {"wipe", "select", "pool", "clean"}

\* ------------------------------------------------------- process_images
\* the marker path of an image: img_path.with_suffix(".json")
MarkerOf(p) == WithSuffix(p, ".json")

\* the filter with the polarity of resume turned round
SelectedInverted(img_path, resume, mk) ==
    LET exists == MarkerOf(img_path) \in mk
    IN  ~(resume /\ exists) /\ ~(~resume /\ ~exists)

\* a filter that skips nothing
SelectedAlways(img_path, resume, mk) == TRUE

\* the task filter of the selection loop
Selected(img_path, resume, mk) ==
    LET exists == MarkerOf(img_path) \in mk
    IN  ~(resume /\ ~exists) /\ ~(~resume /\ exists)

SelectTasks(ips, resume, mk) == SelectSeq(ips, LAMBDA p : Selected(p, resume, mk))

\* a fresh run whose wipe is missing
FreshWipedNothing(mk, fresh, json_paths) == mk

\* if fresh: unlink every json path that exists
FreshWiped(mk, fresh, json_paths) ==
    IF fresh THEN mk \ json_paths ELSE mk

\* a cleanup that does not look at the clean flag
CleanedAlways(mk, clean, json_paths) == mk \ json_paths

\* a cleanup that unlinks the markers of the processed tasks only
CleanedTasksOnly(mk, clean, json_paths) ==
    IF clean THEN mk \ {MarkerOf(tasks[i]) : i \in DOMAIN tasks} ELSE mk

\* if clean: unlink every json path that exists
Cleaned(mk, clean, json_paths) ==
    IF clean THEN mk \ json_paths ELSE mk

SeqRange(s) == {s[i] : i \in DOMAIN s}

BlobIdsOf(rs) == {rs[i].blobId : i \in DOMAIN rs}

\* a duplicate count that does not look at the verify flag
DuplicatesUngated(rs, verify) == Len(rs) - Cardinality(BlobIdsOf(rs))

\* duplicates as process_images computes them
Duplicates(rs, verify) ==
    IF verify THEN Len(rs) - Cardinality(BlobIdsOf(rs)) ELSE 0

SimTotals(rs, verify) ==
    [totalBlobIds     |-> Len(rs),
     uniqueBlobIds    |-> Cardinality(BlobIdsOf(rs)),
     duplicateBlobIds |-> Duplicates(rs, verify),
     hasDuplicates    |-> Duplicates(rs, verify) > 0]

\* the dictionaries simulate_image returns
SimResult(p, blob) == [img_path |-> p, blobId |-> blob]

SimError(p) == [image |-> p, error |-> "walrus"]

\* isinstance(result, dict) and "error" in result
IsError(r) == "error" \in DOMAIN r

Busy == {i \in DOMAIN st : st[i] \in {"running", "writing"}}

Unfinished == {i \in DOMAIN st : st[i] # "done"}

\* the state a process_images call starts from
CallStart(a, p) ==
    /\ image_paths' = ImagePaths(dir)
    /\ args' = a
    /\ pass' = p
    /\ pc' = "wipe"
    /\ tasks' = << >> /\ st' = << >> /\ ret' = << >> /\ nxt' = 1
    /\ results' = << >> /\ errors' = << >>
    /\ calls' = << >>
    /\ written' = {}

\* cli.simulate: the try block calls process_images with the command's options
Simulate ==
    /\ command = "simulate"
    /\ pc = "idle"
    /\ \E o \in Options : opts' = o /\ CallStart(o, 1)
    /\ interrupted' = FALSE
    /\ startMarkers' = markers
    /\ UNCHANGED <<command, upVars, fsVars, totals, report, run, prev, sigMarkers>>

\* the same command line is given again on the directory the first one left
SimulateAgain ==
    /\ pc = "done"
    /\ run = "first"
    /\ run' = "second"
    /\ prev' = [ran |-> TRUE, nerrors |-> Len(errors), ntasks |-> Len(tasks)]
    /\ interrupted' = FALSE
    /\ CallStart(opts, 1)
    /\ totals' = NoTotals
    /\ report' = NoReport
    /\ startMarkers' = markers
    /\ UNCHANGED <<command, upVars, fsVars, opts, sigMarkers>>

\* process_images lines 117-120
FreshWipe ==
    /\ pc = "wipe"
    /\ markers' = FreshWiped(markers, args.fresh, JsonPaths(image_paths))
    /\ pc' = "select"
    /\ UNCHANGED <<command, image_paths, upVars, dir, cmdVars, poolVars, outVars, histVars>>

\* process_images lines 122-132: the tasks are selected and handed to the pool
Select ==
    /\ pc = "select"
    /\ tasks' = SelectTasks(image_paths, args.resume, markers)
    /\ st' = [i \in 1..Len(tasks') |-> "pending"]
    /\ ret' = [i \in 1..Len(tasks') |-> << >>]
    /\ nxt' = 1
    /\ pc' = "pool"
    /\ UNCHANGED <<command, image_paths, upVars, fsVars, cmdVars, outVars, histVars>>

\* a pool that starts a queued task whether or not a worker is free
WorkerStartUnbounded(i) ==
    /\ pc = "pool"
    /\ i \in DOMAIN st
    /\ st[i] = "pending"
    /\ \A j \in 1..(i - 1) : st[j] # "pending"
    /\ st' = [st EXCEPT ![i] = "running"]
    /\ calls' = Append(calls, tasks[i])
    /\ UNCHANGED <<command, image_paths, upVars, fsVars, cmdVars, pc, tasks, ret, nxt,
                   outVars, run, prev, startMarkers, sigMarkers, written>>

\* a free worker of the pool takes the next queued task and invokes the client
WorkerStart(i) ==
    /\ pc = "pool"
    /\ i \in DOMAIN st
    /\ st[i] = "pending"
    /\ \A j \in 1..(i - 1) : st[j] # "pending"
    /\ Cardinality(Busy) < PoolSize(args.workers)
    /\ st' = [st EXCEPT ![i] = "running"]
    /\ calls' = Append(calls, tasks[i])
    /\ UNCHANGED <<command, image_paths, upVars, fsVars, cmdVars, pc, tasks, ret, nxt,
                   outVars, run, prev, startMarkers, sigMarkers, written>>

\* simulate_image lines 172-181 succeed: the result dictionary is built
WorkerOutput(i, blob) ==
    /\ pc = "pool"
    /\ i \in DOMAIN st
    /\ st[i] = "running"
    /\ ret' = [ret EXCEPT ![i] = SimResult(tasks[i], blob)]
    /\ st' = [st EXCEPT ![i] = "writing"]
    /\ UNCHANGED <<command, image_paths, upVars, fsVars, cmdVars, pc, tasks, nxt, outVars,
                   histVars>>

\* a failure that escapes simulate_image and takes the whole call down
WorkerFailAbortsBatch(i) ==
    /\ pc = "pool"
    /\ i \in DOMAIN st
    /\ st[i] = "running"
    /\ pc' = "killed"
    /\ UNCHANGED <<command, image_paths, upVars, fsVars, cmdVars, poolVars, outVars,
                   histVars>>

\* simulate_image lines 185-186: the client failed or its output was malformed
WorkerFail(i) ==
    /\ pc = "pool"
    /\ i \in DOMAIN st
    /\ st[i] = "running"
    /\ ret' = [ret EXCEPT ![i] = SimError(tasks[i])]
    /\ st' = [st EXCEPT ![i] = "done"]
    /\ UNCHANGED <<command, image_paths, upVars, fsVars, cmdVars, pc, tasks, nxt, outVars,
                   histVars>>

\* simulate_image lines 182-184: the marker is written and the result returned
WorkerWrite(i) ==
    /\ pc = "pool"
    /\ i \in DOMAIN st
    /\ st[i] = "writing"
    /\ markers' = markers \cup {MarkerOf(tasks[i])}
    /\ written' = written \cup {MarkerOf(tasks[i])}
    /\ st' = [st EXCEPT ![i] = "done"]
    /\ UNCHANGED <<command, image_paths, upVars, dir, cmdVars, pc, tasks, ret, nxt,
                   outVars, run, prev, startMarkers, sigMarkers, calls>>

\* a collecting loop that drops the error dictionaries
CollectResultsOnly ==
    /\ pc = "pool"
    /\ nxt \in DOMAIN st
    /\ st[nxt] = "done"
    /\ IF IsError(ret[nxt])
       THEN UNCHANGED <<results, errors>>
       ELSE results' = Append(results, ret[nxt]) /\ UNCHANGED errors
    /\ nxt' = nxt + 1
    /\ UNCHANGED <<command, image_paths, upVars, fsVars, cmdVars, pc, tasks, st, ret,
                   totals, report,
                   histVars>>

\* process_images lines 134-138: executor.map yields the next value, in task order
Collect ==
    /\ pc = "pool"
    /\ nxt \in DOMAIN st
    /\ st[nxt] = "done"
    /\ IF IsError(ret[nxt])
       THEN errors' = Append(errors, ret[nxt]) /\ UNCHANGED results
       ELSE results' = Append(results, ret[nxt]) /\ UNCHANGED errors
    /\ nxt' = nxt + 1
    /\ UNCHANGED <<command, image_paths, upVars, fsVars, cmdVars, pc, tasks, st, ret,
                   totals, report, histVars>>

\* every value was yielded: the with block is left
PoolExit ==
    /\ pc = "pool"
    /\ nxt > Len(tasks)
    /\ pc' = "clean"
    /\ UNCHANGED <<command, image_paths, upVars, fsVars, cmdVars, poolVars, outVars,
                   histVars>>

\* process_images lines 140-168: verification, cleanup, totals, return
Finish ==
    /\ pc = "clean"
    /\ markers' = Cleaned(markers, args.clean, JsonPaths(image_paths))
    /\ totals' = SimTotals(results, args.verify)
    /\ pc' = "returned"
    /\ UNCHANGED <<command, image_paths, upVars, dir, cmdVars, poolVars, results, errors,
                   report, histVars>>

\* cli.simulate line 85: the report generator is handed the outcome
Report ==
    /\ pc = "returned"
    /\ report' = [made |-> TRUE, results |-> results, errors |-> errors,
                  totals |-> totals, interrupted |-> interrupted]
    /\ pc' = "done"
    /\ UNCHANGED <<command, image_paths, upVars, fsVars, cmdVars, poolVars, results,
                   errors, totals, histVars>>

\* the markers a deletion loop (fresh wipe, cleanup) had already unlinked when a
\* signal arrived in the middle of it
PartlyDeleted(mk, inLoop, json_paths) ==
    IF inLoop THEN {mk \ D : D \in SUBSET (mk \cap json_paths)} ELSE {mk}

\* the markers on disk once the pool has shut down after a signal: every task
\* not yet done may still have written its marker, or have been killed
AfterShutdown(mk, W) == mk \cup {MarkerOf(tasks[i]) : i \in W}

\* a recovery call that is handed the options of the interrupted command
RecoveryArgsAsGiven(o) == o

\* what process_images is called with in the except block (cli lines 57-67)
RecoveryArgs(o) == [resume |-> FALSE, fresh |-> FALSE, verify |-> o.verify,
                    clean |-> FALSE, workers |-> o.workers]

\* KeyboardInterrupt inside the try block: cli.simulate lines 54-67
Interrupt ==
    /\ pc \in InCall
    /\ pass = 1
    /\ \E atSignal \in PartlyDeleted(markers,
                         (pc = "wipe" /\ args.fresh) \/ (pc = "clean" /\ args.clean),
                         JsonPaths(image_paths)) :
         \E W \in SUBSET (IF pc = "pool" THEN Unfinished ELSE {}) :
            /\ sigMarkers' = atSignal
            /\ markers' = AfterShutdown(atSignal, W)
            /\ startMarkers' = AfterShutdown(atSignal, W)
    /\ interrupted' = TRUE
    /\ CallStart(RecoveryArgs(opts), 2)
    /\ UNCHANGED <<command, upVars, dir, opts, totals, report, run, prev>>

\* KeyboardInterrupt inside the except block: nothing catches it
InterruptRecovery ==
    /\ pc \in InCall
    /\ pass = 2
    /\ \E W \in SUBSET (IF pc = "pool" THEN Unfinished ELSE {}) :
            /\ markers' = AfterShutdown(markers, W)
            /\ written' = AfterShutdown(written, W)
    /\ pc' = "killed"
    /\ UNCHANGED <<command, image_paths, upVars, dir, cmdVars, poolVars, outVars,
                   run, prev, startMarkers, sigMarkers, calls>>

\* the amounts of the upload path before the wallet is read
NoAmount == [frost |-> 0, err |-> 0]

SimInit ==
    /\ image_paths = << >>
    /\ opts = NoOptions
    /\ args = NoOptions
    /\ pc = "idle"
    /\ pass = 1
    /\ interrupted = FALSE
    /\ tasks = << >> /\ st = << >> /\ ret = << >> /\ nxt = 1
    /\ results = << >> /\ errors = << >>
    /\ totals = NoTotals /\ report = NoReport
    /\ run = "first"
    /\ prev = NoPrev
    /\ startMarkers = markers
    /\ sigMarkers = {}
    /\ calls = << >>
    /\ written = {}

UpInit ==
    /\ wallet = << >>
    /\ upc = "idle"
    /\ sui_balance = NoAmount /\ wal_balance = NoAmount /\ wal_available = NoAmount
    /\ k = 1
    /\ upResults = << >> /\ upErrors = << >>
    /\ upTotals = NoTotals /\ upReport = NoReport
    /\ trail = << >>
    /\ upRun = "first"

Init ==
    /\ command = "simulate"
    /\ dir \in Directories
    /\ markers \in SUBSET JsonPaths(ImagePaths(dir))
    /\ stored = {}
    /\ SimInit
    /\ UpInit

\* one process_images call
CallNext ==
    \/ FreshWipe
    \/ Select
    \/ \E i \in 1..MaxImages : WorkerStart(i)
    \/ \E i \in 1..MaxImages, b \in BlobIds : WorkerOutput(i, b)
    \/ \E i \in 1..MaxImages : WorkerFail(i)
    \/ \E i \in 1..MaxImages : WorkerWrite(i)
    \/ Collect
    \/ PoolExit
    \/ Finish
    \/ Report

\* one simulate command, which a signal may interrupt
Next ==
    \/ Simulate
    \/ CallNext
    \/ Interrupt
    \/ InterruptRecovery

Spec == Init /\ [][Next]_vars

\* the simulate command given twice in succession, with no signal
TwiceNext ==
    \/ Simulate
    \/ SimulateAgain
    \/ CallNext

TwiceSpec == Init /\ [][TwiceNext]_vars

\* --------------------------------------------------------- upload_images
\* A WAL or SUI amount is a Python float.  It is kept as frost, the integer
\* number of FROST that exact arithmetic gives, and err, where the float sits:
\*   -1  below the float of frost / 10**9 (an estimate of frost FROST exceeds it),
\*    0  at that float or less than a FROST above it,
\*    1  at or above the float of (frost + 1) / 10**9.
\* An estimate of c FROST exceeds the amount exactly when c > frost + err.
\* A subtraction of amounts of a few WAL is off by far less than a FROST: it
\* can leave the result short (0.3 - 0.1 < 0.2) but not a FROST long.  From about
\* 10**15 FROST on the three roundings of "B / 10**9 - c / 10**9" add up to a
\* FROST and more in either direction, and what a result is off by stays in the
\* counter.  Wide stands for such a FROST count: it lies above every sum of the
\* small amounts of the model.
Wide == (MaxImages + 1) * (MaxCost + 1) + MaxWal + 1

ToWal(n) == [frost |-> n, err |-> 0]

\* a > b on two amounts, one of them converted from an integer
Gt(a, b) == a.frost + a.err > b.frost + b.err

\* not a: the float is 0.0
IsZero(a) == a.frost = 0 /\ a.err = 0

\* where the float of a difference can sit when a is the minuend
Drift(a) ==
    IF a.frost >= Wide THEN {-1, 0, 1}
    ELSE IF a.err = 1 THEN {0, 1}
    ELSE {-1, 0}

\* the floats a - b can be, for b <= a: a itself when b is 0.0, 0.0 or just
\* above when a sits where b does, rounded otherwise; never below 0.0
Differences(a, b) ==
    IF IsZero(b) THEN {a}
    ELSE IF a.frost = b.frost /\ a.err = 0 THEN {[frost |-> 0, err |-> 0]}
    ELSE {[frost |-> a.frost - b.frost, err |-> e] :
             e \in {x \in Drift(a) : a.frost - b.frost + x >= 0}}

\* the token groups the wallet client may list: (metadata, coins) pairs
SuiGroups == {[symbol |-> "SUI", balance |-> b] : b \in -1..1}

WalGroups == {[symbol |-> "WAL", balance |-> b] : b \in 0..MaxWal \cup {Wide + 1}}

\* the storageCost a dry run may report
Estimates == 0..MaxCost \cup {Wide}

TokenGroups == SuiGroups \cup WalGroups

Wallets == {<< >>} \cup {<<g>> : g \in TokenGroups}
              \cup {<<g, h>> : g \in TokenGroups, h \in TokenGroups}

\* the loop of get_balances: the last SUI and the last WAL group listed count
RECURSIVE ScanGroups(_, _, _, _)
ScanGroups(w, i, sui, wal) ==
    IF i > Len(w) THEN <<sui, wal>>
    ELSE IF w[i].symbol = "SUI" THEN ScanGroups(w, i + 1, w[i].balance, wal)
    ELSE IF w[i].symbol = "WAL" THEN ScanGroups(w, i + 1, sui, w[i].balance)
    ELSE ScanGroups(w, i + 1, sui, wal)

\* get_balances: both start at 0 and are divided by 10**9 at the end
GetBalances(w) ==
    LET found == ScanGroups(w, 1, 0, 0)
    IN  <<ToWal(found[1]), ToWal(found[2])>>

\* a WAL check that lets a zero balance through
WalFatalNever(wal) == FALSE

\* upload_images lines 61-64: the two checks that raise RuntimeError
SuiFatal(sui) == IsZero(sui) \/ ~Gt(sui, ToWal(0))

WalFatal(wal) == IsZero(wal)

\* the directories the upload command is run on: the first n image files
UploadDirectories ==
    {{Enumerate(AllImages)[i] : i \in 1..n} \cup {NotesFile} : n \in 0..MaxImages}

StoredOf(p) == WithSuffix(p, ".stored.json")

UpResult(p, blob) == [name |-> p, blobId |-> blob]

UpError(p, why) == [image |-> p, error |-> why]

\* totals of upload_images: uniqueness is always computed
UpTotals(rs) ==
    [totalBlobIds     |-> Len(rs),
     uniqueBlobIds    |-> Cardinality(BlobIdsOf(rs)),
     duplicateBlobIds |-> Len(rs) - Cardinality(BlobIdsOf(rs)),
     hasDuplicates    |-> Len(rs) # Cardinality(BlobIdsOf(rs))]

simVars == <<cmdVars, pc, poolVars, outVars, histVars>>

simAll == <<command, image_paths, simVars>>

\* an upload that leaves out the images that have a stored record
UploadSkippingStored ==
    /\ command = "upload"
    /\ upc = "idle"
    /\ \E w \in Wallets :
          /\ wallet' = w
          /\ sui_balance' = GetBalances(w)[1]
          /\ wal_balance' = GetBalances(w)[2]
    /\ image_paths' = SelectSeq(ImagePaths(dir), LAMBDA p : StoredOf(p) \notin stored)
    /\ IF SuiFatal(sui_balance') \/ WalFatal(wal_balance')
       THEN upc' = "fatal" /\ UNCHANGED wal_available
       ELSE upc' = "loop" /\ wal_available' = wal_balance'
    /\ UNCHANGED <<fsVars, command, simVars, k, upResults, upErrors, upTotals, upReport,
                   stored, trail, upRun>>

\* upload_images lines 53-66: the wallet is read once and checked
Upload ==
    /\ command = "upload"
    /\ upc = "idle"
    /\ \E w \in Wallets :
          /\ wallet' = w
          /\ sui_balance' = GetBalances(w)[1]
          /\ wal_balance' = GetBalances(w)[2]
    /\ image_paths' = ImagePaths(dir)
    /\ IF SuiFatal(sui_balance') \/ WalFatal(wal_balance')
       THEN upc' = "fatal" /\ UNCHANGED wal_available
       ELSE upc' = "loop" /\ wal_available' = wal_balance'
    /\ UNCHANGED <<fsVars, command, simVars, k, upResults, upErrors, upTotals, upReport,
                   stored,
                   trail, upRun>>

InLoop == upc = "loop" /\ k \in DOMAIN image_paths

Step(kind, cost) ==
    Append(trail, [kind |-> kind, cost |-> cost, before |-> wal_available])

\* line 71-72 raise: the dry run failed or its output was malformed
ItemDryFail ==
    /\ InLoop
    /\ upErrors' = Append(upErrors, UpError(image_paths[k], "dry-run"))
    /\ trail' = Step("dryfail", 0)
    /\ k' = k + 1
    /\ UNCHANGED <<fsVars, simAll, wallet, upc, sui_balance, wal_balance, wal_available,
                   upResults, upTotals, upReport, stored, upRun>>

\* lines 73-74: the estimate exceeds what is left
ItemReject(c) ==
    /\ InLoop
    /\ Gt(ToWal(c), wal_available)
    /\ upErrors' = Append(upErrors, UpError(image_paths[k], "Not enough WAL balance"))
    /\ trail' = Step("rejected", c)
    /\ k' = k + 1
    /\ UNCHANGED <<fsVars, simAll, wallet, upc, sui_balance, wal_balance, wal_available,
                   upResults, upTotals, upReport, stored, upRun>>

\* a failed store that is charged all the same
ItemStoreFailDeducts(c) ==
    /\ upc = "loop" /\ k \in DOMAIN image_paths
    /\ ~Gt(ToWal(c), wal_available)
    /\ upErrors' = Append(upErrors, UpError(image_paths[k], "store"))
    /\ wal_available' \in Differences(wal_available, ToWal(c))
    /\ trail' = Append(trail, [kind |-> "storefail", cost |-> c, before |-> wal_available])
    /\ k' = k + 1
    /\ UNCHANGED <<fsVars, simAll, wallet, upc, sui_balance, wal_balance,
                   upResults, upTotals, upReport, stored, upRun>>

\* line 77 raises: the real store failed or its output was malformed
ItemStoreFail(c) ==
    /\ InLoop
    /\ ~Gt(ToWal(c), wal_available)
    /\ upErrors' = Append(upErrors, UpError(image_paths[k], "store"))
    /\ trail' = Step("storefail", c)
    /\ k' = k + 1
    /\ UNCHANGED <<fsVars, simAll, wallet, upc, sui_balance, wal_balance, wal_available,
                   upResults, upTotals, upReport, stored, upRun>>

\* lines 77-80: the store answered and was saved, but its record holds no
\* newlyCreated blob object (KeyError)
ItemBadRecord(c) ==
    /\ InLoop
    /\ ~Gt(ToWal(c), wal_available)
    /\ stored' = stored \cup {StoredOf(image_paths[k])}
    /\ upErrors' = Append(upErrors, UpError(image_paths[k], "newlyCreated"))
    /\ trail' = Step("badrecord", c)
    /\ k' = k + 1
    /\ UNCHANGED <<fsVars, simAll, wallet, upc, sui_balance, wal_balance, wal_available,
                   upResults, upTotals, upReport, upRun>>

\* a store that forgets to deduct the estimate
ItemStoredNoDeduct(c, blob) ==
    /\ upc = "loop" /\ k \in DOMAIN image_paths
    /\ ~Gt(ToWal(c), wal_available)
    /\ stored' = stored \cup {StoredOf(image_paths[k])}
    /\ upResults' = Append(upResults, UpResult(image_paths[k], blob))
    /\ trail' = Step("stored", c)
    /\ k' = k + 1
    /\ UNCHANGED <<fsVars, simAll, wallet, upc, sui_balance, wal_balance, wal_available,
                   upErrors, upTotals, upReport, upRun>>

\* lines 77-89: the image is stored, recorded, and its estimate deducted
ItemStored(c, blob) ==
    /\ InLoop
    /\ ~Gt(ToWal(c), wal_available)
    /\ stored' = stored \cup {StoredOf(image_paths[k])}
    /\ upResults' = Append(upResults, UpResult(image_paths[k], blob))
    /\ wal_available' \in Differences(wal_available, ToWal(c))
    /\ trail' = Step("stored", c)
    /\ k' = k + 1
    /\ UNCHANGED <<fsVars, simAll, wallet, upc, sui_balance, wal_balance, upErrors,
                   upTotals, upReport, upRun>>

\* lines 94-109: the loop is over, the totals are built and returned
UploadFinish ==
    /\ upc = "loop"
    /\ k > Len(image_paths)
    /\ upTotals' = UpTotals(upResults)
    /\ upc' = "returned"
    /\ UNCHANGED <<fsVars, simAll, wallet, sui_balance, wal_balance, wal_available, k,
                   upResults, upErrors, upReport, stored, trail, upRun>>

\* cli.upload line 108
UploadReport ==
    /\ upc = "returned"
    /\ upReport' = [made |-> TRUE, results |-> upResults, errors |-> upErrors,
                    totals |-> upTotals]
    /\ upc' = "done"
    /\ UNCHANGED <<fsVars, simAll, wallet, sui_balance, wal_balance, wal_available, k,
                   upResults, upErrors, upTotals, stored, trail, upRun>>

\* the upload command is given again on the same directory
UploadAgain ==
    /\ upc = "done"
    /\ upRun = "first"
    /\ upRun' = "second"
    /\ upc' = "idle"
    /\ k' = 1
    /\ upResults' = << >> /\ upErrors' = << >>
    /\ upTotals' = NoTotals /\ upReport' = NoReport
    /\ trail' = << >>
    /\ UNCHANGED <<fsVars, simAll, wallet, sui_balance, wal_balance, wal_available, stored>>

UploadInit ==
    /\ command = "upload"
    /\ dir \in UploadDirectories
    /\ \E present \in BOOLEAN :
          /\ markers = (IF present THEN JsonPaths(ImagePaths(dir)) ELSE {})
          /\ stored = (IF present
                       THEN {StoredOf(ImagePaths(dir)[i]) : i \in DOMAIN ImagePaths(dir)}
                       ELSE {})
    /\ SimInit
    /\ UpInit

UploadNext ==
    \/ Upload
    \/ ItemDryFail
    \/ \E c \in Estimates : ItemReject(c)
    \/ \E c \in Estimates : ItemStoreFail(c)
    \/ \E c \in Estimates : ItemBadRecord(c)
    \/ \E c \in Estimates, b \in BlobIds : ItemStored(c, b)
    \/ UploadFinish
    \/ UploadReport
    \/ UploadAgain

UploadSpec == UploadInit /\ [][UploadNext]_vars

\* either command on a directory, with no signal
AnyInit == Init \/ UploadInit

AnyNext ==
    \/ Simulate
    \/ CallNext
    \/ UploadNext

AnySpec == AnyInit /\ [][AnyNext]_vars

\* ================================================================ claims
\* the candidates: the image files of the directory
Images == {p \in dir : Lower(p.suffix) \in ImageSuffixes}

Returned == pc \in {"returned", "done"}

UpReturned == upc \in {"returned", "done"}

\* how often a path occurs as the subject of a sequence of dictionaries
Outcomes(rs, es, p, key) ==
    Cardinality({j \in DOMAIN rs : rs[j][key] = p})
        + Cardinality({j \in DOMAIN es : es[j].image = p})

\* C1: when a process_images or an upload_images call returns, every selected
\* item has exactly one outcome, a result or an error, and the two lists together
\* are as long as the selection.
C1_OneOutcomeEach ==
    /\ Returned =>
          /\ Len(results) + Len(errors) = Len(tasks)
          /\ \A i \in DOMAIN tasks : Outcomes(results, errors, tasks[i], "img_path") = 1
    /\ UpReturned =>
          /\ Len(upResults) + Len(upErrors) = Len(image_paths)
          /\ \A i \in DOMAIN image_paths :
                Outcomes(upResults, upErrors, image_paths[i], "name") = 1

C1_Witness == pc = "done" /\ Len(results) >= 1 /\ Len(errors) >= 1

\* ---- admission on the upload path
RECURSIVE SumTo(_, _)
SumTo(cs, n) == IF n = 0 THEN 0 ELSE SumTo(cs, n - 1) + cs[n]

Costs == [i \in DOMAIN trail |-> trail[i].cost]

Admitted == {i \in DOMAIN trail : trail[i].kind = "stored"}

Rejected == {i \in DOMAIN trail : trail[i].kind = "rejected"}

\* the length of the largest prefix of cs whose sum is at most B
LargestPrefix(cs, B) ==
    CHOOSE m \in 0..Len(cs) :
        /\ SumTo(cs, m) <= B
        /\ \A n \in (m + 1)..Len(cs) : SumTo(cs, n) > B

\* every dry run and every real store of the run succeeded
AllSucceeded == UpReturned /\ Admitted \cup Rejected = DOMAIN trail

\* what of the initial WAL balance the items admitted before item i left
RECURSIVE SpentBefore(_)
SpentBefore(i) ==
    IF i <= 1 THEN 0
    ELSE SpentBefore(i - 1) + (IF (i - 1) \in Admitted THEN trail[i - 1].cost ELSE 0)

RemainingBefore(i) == wal_balance.frost - SpentBefore(i)

\* C2 as stated: the admitted items are exactly the largest prefix whose
\* cumulative cost is at most the initial balance.
C2_LargestPrefix ==
    AllSucceeded => Admitted = 1..LargestPrefix(Costs, wal_balance.frost)

\* C2 amended: admission is greedy against the running counter.  An item is
\* admitted exactly when its estimate does not exceed the counter, which stands
\* for the balance less the estimates admitted before.  With a balance of a few
\* WAL an item is admitted only if its cost is at most what the earlier admitted
\* items left of the balance, is rejected only if its cost is at least that, and
\* at exact equality is rejected only after a deduction whose rounding left the
\* counter short.
C2_GreedyAdmission ==
    AllSucceeded =>
        \A i \in DOMAIN trail :
            /\ i \in Admitted <=> ~Gt(ToWal(trail[i].cost), trail[i].before)
            /\ trail[i].before.frost = RemainingBefore(i)
            /\ wal_balance.frost < Wide =>
                  /\ i \in Admitted => trail[i].cost <= RemainingBefore(i)
                  /\ i \in Rejected => trail[i].cost >= RemainingBefore(i)
                  /\ (i \in Rejected /\ trail[i].cost = RemainingBefore(i)) =>
                        \E j \in Admitted : j < i /\ trail[j].cost > 0

C2_Witness ==
    /\ AllSucceeded
    /\ \E i \in Rejected, j \in Admitted : i < j /\ trail[j].cost < trail[i].cost

\* ---- the simulate command given twice
DefaultMode(o) == ~o.resume /\ ~o.fresh

SecondSelected == run = "second" /\ pc \notin {"idle", "wipe", "select"}

\* C3 as stated: the second of two default-mode runs selects nothing, whatever
\* the other options.
C3_SecondSelectsNothing ==
    (SecondSelected /\ DefaultMode(opts)) => tasks = << >>

\* C3 amended: the second default-mode run selects nothing when the first ran
\* without clean and none of its items failed; with clean it selects every
\* candidate again.
C3_SecondSelectsNothingUnlessCleanOrFailed ==
    (SecondSelected /\ DefaultMode(opts)) =>
        /\ (~opts.clean /\ prev.nerrors = 0) => tasks = << >>
        /\ opts.clean => tasks = ImagePaths(dir)

C3_Witness ==
    /\ SecondSelected /\ DefaultMode(opts) /\ pc = "done"
    /\ ~opts.clean /\ prev.nerrors = 0 /\ prev.ntasks > 0
    /\ tasks = << >>

\* ---- interruption
ReportedPaths == {report.results[i].img_path : i \in DOMAIN report.results}

\* C4: after an interrupt the report holds exactly the items whose marker was on
\* disk when the signal arrived.
C4_ReportIsWhatWasPersisted ==
    (pc = "done" /\ interrupted) =>
        ReportedPaths = {p \in Images : MarkerOf(p) \in sigMarkers}

\* C5: an interrupted command makes one recovery call, without fresh and without
\* clean, and every marker that was on disk when the interrupt was caught stays.
C5_RecoveryKeepsMarkers ==
    interrupted =>
        /\ pass = 2
        /\ ~args.fresh /\ ~args.clean
        /\ startMarkers \subseteq markers

C5_Witness ==
    /\ interrupted /\ pc = "done"
    /\ opts.fresh /\ opts.clean
    /\ startMarkers # {}

\* ---- fresh and resume
FreshDone == pc = "done" /\ ~interrupted /\ opts.fresh

\* C6 as stated: after a completed fresh run no candidate has a marker.
C6_NoMarkerAfterFresh ==
    FreshDone => markers \cap JsonPaths(ImagePaths(dir)) = {}

\* C6 amended: after a completed fresh run the markers on disk are exactly those
\* of the items that succeeded in it, and none when clean is set as well.
C6_OnlyNewMarkersAfterFresh ==
    FreshDone =>
        markers = (IF opts.clean THEN {}
                   ELSE {MarkerOf(results[i].img_path) : i \in DOMAIN results})

C6_Witness ==
    /\ FreshDone /\ ~opts.clean
    /\ startMarkers # {}
    /\ Len(results) >= 1 /\ Len(errors) >= 1

Unmarked == {p \in Images : MarkerOf(p) \notin startMarkers}

Listed(w, sym) == {i \in DOMAIN w : w[i].symbol = sym}

Last(S) == CHOOSE i \in S : \A j \in S : j <= i

Reported(w, sym) == w[Last(Listed(w, sym))].balance

SuiMissingOrNonPositive(w) == Listed(w, "SUI") = {} \/ Reported(w, "SUI") <= 0

WalMissing(w) == Listed(w, "WAL") = {}

WalZero(w) == Listed(w, "WAL") # {} /\ Reported(w, "WAL") = 0

C9_ZeroWalRuns ==
    (upc # "idle" /\ ~SuiMissingOrNonPositive(wallet) /\ WalZero(wallet)) =>
        /\ upc # "fatal"
        /\ \A i \in DOMAIN trail : trail[i].cost > 0 => i \in Rejected

\* C10: no two item operations in flight write the same marker path.
C10_MarkerPathExclusive ==
    \A i \in Busy, j \in Busy : i # j => MarkerOf(tasks[i]) # MarkerOf(tasks[j])

\* ---- isolation of per-item failures
Failed == {i \in DOMAIN st : st[i] = "done" /\ IsError(ret[i])}

Paths(rs, key) == {rs[j][key] : j \in DOMAIN rs}

UpFailed == {i \in DOMAIN trail : trail[i].kind # "stored"}

PoolLeft == pc \in {"clean", "returned", "done"}

\* C12: in a process_images call the client is invoked for selected items only,
\* for none of them twice, for each of them once the pool is left, and never are
\* more invocations in flight than the pool has workers.
C12_OncePerItemBounded ==
    /\ Cardinality(Busy) <= PoolSize(args.workers)
    /\ SeqRange(calls) \subseteq SeqRange(tasks)
    /\ \A a \in DOMAIN calls, b \in DOMAIN calls : a # b => calls[a] # calls[b]
    /\ PoolLeft => SeqRange(calls) = SeqRange(tasks)

C12_Witness ==
    /\ pc = "pool"
    /\ Cardinality(Busy) = PoolSize(args.workers)
    /\ \E i \in DOMAIN st : st[i] = "pending"

\* ---- selection
AfterSelect == pc \in {"pool", "clean", "returned", "done"}

\* C13: in a call with fresh set no candidate has a marker once the wipe is
\* done, and every candidate is selected, whatever resume is.
C13_FreshSelectsAll ==
    /\ (args.fresh /\ pc = "select") => markers \cap JsonPaths(image_paths) = {}
    /\ (args.fresh /\ AfterSelect) => tasks = image_paths

\* C14: a call with neither resume nor fresh selects exactly the candidates that
\* had no marker when it started, in enumeration order, and never invokes the
\* client for a candidate that had one.
C14_DefaultSelectsUnmarked ==
    (DefaultMode(args) /\ pc # "idle") =>
        LET unmarked == Unmarked
        IN  /\ AfterSelect => tasks = SelectSeq(image_paths, LAMBDA p : p \in unmarked)
            /\ \A p \in Images \ unmarked : p \notin SeqRange(calls)

C14_Witness ==
    /\ DefaultMode(args) /\ pass = 1 /\ pc = "done"
    /\ Unmarked # {}
    /\ Images \ Unmarked # {}
    /\ Len(calls) = Len(tasks)

\* ---- totals
\* the number of distinct blob identifiers, counted by first occurrence
Distinct(rs) ==
    Cardinality({i \in DOMAIN rs : \A j \in 1..(i - 1) : rs[j].blobId # rs[i].blobId})

Example == <<[blobId |-> "A"], [blobId |-> "A"], [blobId |-> "B"], [blobId |-> "C"]>>

Accounted(t, rs, counted) ==
    /\ t.totalBlobIds = Len(rs)
    /\ t.uniqueBlobIds = Distinct(rs)
    /\ t.duplicateBlobIds = (IF counted THEN Len(rs) - Distinct(rs) ELSE 0)
    /\ t.hasDuplicates = (t.duplicateBlobIds > 0)

ExampleAccounted ==
    /\ SimTotals(Example, TRUE) = [totalBlobIds |-> 4, uniqueBlobIds |-> 3,
                                   duplicateBlobIds |-> 1, hasDuplicates |-> TRUE]
    /\ UpTotals(Example) = SimTotals(Example, TRUE)
    /\ SimTotals(Example, FALSE) = [totalBlobIds |-> 4, uniqueBlobIds |-> 3,
                                    duplicateBlobIds |-> 0, hasDuplicates |-> FALSE]

\* C15: the totals of upload_images always, and those of process_images with
\* verify, count the duplicates as results minus distinct blob identifiers
\* ([A, A, B, C] gives 1 duplicate, 3 unique, hasDuplicates); without verify
\* process_images reports 0 duplicates and no hasDuplicates, whatever the results.
C15_DuplicateAccounting ==
    /\ Returned => Accounted(totals, results, args.verify)
    /\ UpReturned => Accounted(upTotals, upResults, TRUE)
    /\ ExampleAccounted

C15_Witness ==
    /\ pc = "done" /\ ~args.verify
    /\ Len(results) = 2 /\ Distinct(results) = 1
    /\ ~totals.hasDuplicates

\* ---- the available counter of the upload loop
UpRunning == upc \in {"loop", "returned", "done"}

\* the counter after item i: what the next item found, or what is there now
AfterOf(i) == IF i < Len(trail) THEN trail[i + 1].before ELSE wal_available

StoreInvoked(i) == trail[i].kind \in {"storefail", "badrecord", "stored"}

\* C16: the real store is invoked only after a dry run whose estimate does not
\* exceed the counter; an estimate that exceeds it is an error of the item and
\* spends nothing; the counter goes down by the estimate (up to the rounding of
\* the float subtraction) when the item was stored, and stays as it is on a
\* rejection and on every failure.
C16_SpendOnlyOnSuccess ==
    UpRunning =>
        \A i \in DOMAIN trail :
            /\ StoreInvoked(i) => ~Gt(ToWal(trail[i].cost), trail[i].before)
            /\ trail[i].kind = "rejected" =>
                  /\ Gt(ToWal(trail[i].cost), trail[i].before)
                  /\ image_paths[i] \in Paths(upErrors, "image")
            /\ trail[i].kind = "stored" =>
                  AfterOf(i).frost = trail[i].before.frost - trail[i].cost
            /\ trail[i].kind # "stored" => AfterOf(i) = trail[i].before

C16_Witness ==
    /\ upc = "done" /\ Len(trail) = 2
    /\ trail[1].kind = "stored" /\ trail[1].cost > 0
    /\ trail[2].kind = "rejected"
    /\ wal_available.frost = wal_balance.frost - trail[1].cost

\* ---- markers and outcomes
\* C17: an item whose outcome is an error has no marker written for it in the
\* call: its marker path is not among the paths the call wrote.
C17_MarkerOnlyOnSuccess ==
    PoolLeft => \A j \in DOMAIN errors : MarkerOf(errors[j].image) \notin written

\* the markers the wipe at the start of the call left
AfterWipe == IF args.fresh THEN startMarkers \ JsonPaths(image_paths) ELSE startMarkers

\* C18: when a call with clean set has returned no candidate has a marker, the
\* skipped candidates included; when a call without clean has returned, every
\* marker the wipe left or the call wrote is still there.
C18_CleanDeletesAll ==
    Returned =>
        IF args.clean THEN markers \cap JsonPaths(image_paths) = {}
        ELSE markers = AfterWipe \cup written

C18_Witness ==
    /\ pc = "done" /\ ~interrupted
    /\ args.clean /\ DefaultMode(args)
    /\ Images \ Unmarked # {}
    /\ tasks # << >>
    /\ markers = {}

\* a < 0 on an amount
Negative(a) == Gt(ToWal(0), a)

\* C19: the available counter is never negative, neither as any item finds it
\* nor as the loop leaves it, and the estimates of the stored items add up to at
\* most the initial WAL balance.
C19_NeverOverspent ==
    UpRunning =>
        /\ ~Negative(wal_available)
        /\ \A i \in DOMAIN trail : ~Negative(trail[i].before)
        /\ SpentBefore(Len(trail) + 1) <= wal_balance.frost

\* ---- the upload path and the files of earlier runs
\* C20: an upload works through every image of the directory, whether or not a
\* marker or a stored record exists for it, also when the command is repeated,
\* and it leaves the markers as they are.
C20_UploadIgnoresMarkers ==
    /\ UpRunning => image_paths = ImagePaths(dir)
    /\ UpReturned => Len(trail) = Len(ImagePaths(dir))
    /\ command = "upload" => markers = startMarkers

C20_Witness ==
    /\ upRun = "second" /\ upc = "done"
    /\ markers # {}
    /\ \E i \in DOMAIN trail :
          trail[i].kind = "stored" /\ StoredOf(image_paths[i]) \in stored

====
